---- MODULE Spec2Model ----
(***************************************************************************)
(* State-machine model of the EZEN post editor (src/App.tsx): the React    *)
(* state of the App component, its pointer handlers, form controls, asset  *)
(* loading, PNG export and debounced IndexedDB persistence.                *)
(*                                                                         *)
(* Every handler runs to completion and React commits the state it set     *)
(* before the next event is delivered, so each handler is one action.      *)
(*                                                                         *)
(* Numbers.  Percentages are JavaScript floats in the source.  The model   *)
(* keeps them as exact fixed-point integers: a percentage v is stored as   *)
(* v * Den.  The pointer coordinates and the preview rectangles drawn as   *)
(* inputs are such that every division of the mappers is exact, so no      *)
(* rounding is introduced.  circleSize, circleImageY, headlineSize and     *)
(* headlineY are integers in the source units; circleImageScale is stored  *)
(* in tenths.                                                              *)
(***************************************************************************)
EXTENDS Integers, Sequences, FiniteSets, TLC

\* ------------------------------------------------------------------ values

\* Fixed-point denominator: 2 for circleSize/2, 3 for a 600px wide preview.
Den == 2 * 3

Null == "null"

\* type DragTarget = 'background' | 'circle' | 'headline' | null
Regions == {"background", "circle", "headline"}
DragTarget == Regions \cup {Null}

\* type PostFormat
PostFormat == {"1:1", "9:16", "16:9"}

DefaultMainImage == "https://images.unsplash.com/photo-1485827404703"
DefaultCircleImage == "https://images.unsplash.com/photo-1531297484001"

\* A headline is a sequence of tokens: "{", "}" and "\n" (a line terminator)
\* stand for those single characters, any other token is a run of characters
\* that holds none of them.
DefaultHeadline ==
    << "EZEN NEWS revelado: Novo gerador de posts ", "{", "revoluciona", "}",
       " design digital" >>

\* The document the component is constructed with.
DefaultPost ==
    [ brandName        |-> "EZEN NEWS",
      headline         |-> DefaultHeadline,
      mainImage        |-> DefaultMainImage,
      circleImage      |-> DefaultCircleImage,
      highlightColor   |-> "#00D1FF",
      brandColor       |-> "#FF0055",
      format           |-> "1:1",
      mainImageY       |-> 50 * Den,
      circleImageY     |-> 50,
      circleImageScale |-> 10,
      circleX          |-> 10 * Den,
      circleY          |-> 10 * Den,
      circleSize       |-> 30,
      headlineSize     |-> 100,
      headlineY        |-> 0 ]

\* A document saved by an earlier session.
StoredPost ==
    [DefaultPost EXCEPT !.brandName = "ACME", !.headlineSize = 160, !.format = "9:16"]

\* ------------------------------------------------------------------ inputs

\* Movement threshold of the classifier, in px.
Threshold == 5

\* Baseline of the headline block, in px from the bottom edge.
BaselinePortrait == 180
BaselineOther == 100

\* Range of the circleSize slider.
CircleSizeMin == 10
CircleSizeMax == 70

\* Timer delays, in ms.
DebounceMs == 1000
SavingMs == 800

Pt(px, py) == [x |-> px, y |-> py]
NoPoint == [x |-> 0 - 1, y |-> 0 - 1]

\* Pointer coordinates (clientX, clientY): two start points, points exactly
\* Threshold and Threshold + 1 px away from the first on either axis, and
\* points far outside the preview on both sides of both axes.
StartPoints == { Pt(450, 300), Pt(3000, 0 - 600) }
Points ==
    StartPoints \cup { Pt(455, 295), Pt(456, 300), Pt(450, 294), Pt(0 - 1200, 4800) }

\* Pointer coordinates of moves that pan: on the start point, just past the
\* threshold, and far outside the preview on both sides of both axes.
PanPoints == { Pt(450, 300), Pt(456, 300), Pt(3000, 0 - 600), Pt(0 - 1200, 4800) }

\* Bounding rectangles of the preview (getBoundingClientRect).
MkRect(l, t, w, h) ==
    [left |-> l, top |-> t, width |-> w, height |-> h, right |-> l + w, bottom |-> t + h]
SquareRect == MkRect(0, 0, 600, 600)
Rects == { SquareRect, MkRect(30, 60, 300, 200) }

\* Texts typed into the headline textarea: every text of up to MaxHeadlineLen
\* tokens, and the default headline.
MaxHeadlineLen == 4
HeadlineTokens == {"a", "{", "}", "\n"}
Headlines ==
    UNION {[1..n -> HeadlineTokens] : n \in 0..MaxHeadlineLen} \cup {DefaultHeadline}

\* The URLs precached at install.
ASSETS_TO_CACHE ==
    { <<"/">>, <<"/index.html">>, <<"/index.tsx">>, <<"/App.tsx">>, <<"/manifest.json">>,
      <<"https://", "cdn.tailwindcss.com">>,
      <<"https://", "fonts.googleapis.com", "/css2?family=Inter">> }

\* URLs of the requests the page makes: a precached asset, a module from
\* esm.sh, a font file, an icon that is not precached, and a URL that holds
\* 'googlefonts'.
RequestUrls ==
    { <<"/index.html">>,
      <<"https://", "esm.sh", "/react">>,
      <<"https://", "fonts.gstatic.com", "/inter.woff2">>,
      <<"/icon.png">>,
      <<"https://", "cdn.example", "/", "googlefonts", "/inter.css">> }

\* Bodies of the responses the network gives at different times.
NetworkBodies == {"fresh", "fresher"}

\* Values the circleSize slider is moved to.
SizeInputs == {CircleSizeMin, 30, CircleSizeMax}

\* Files offered by the file selection surface; reading one yields its data
\* URL, or null when the read fails (onloadend fires in both cases).
Files == {"fileA"}
DataUrl(f) == "data:" \o f
ReadResults == {DataUrl(f) : f \in Files} \cup {Null}

\* At most this many FileReader reads are in flight.
MaxReaders == 2

\* The changes of a burst are counted up to this many.
MaxBurst == 2

\* At most this many idb.set calls are in flight.
MaxWrites == 2

\* At most this many export requests are recorded in exportLog.
MaxExportLog == 5
MaxFetches == 2


\* ------------------------------------------------------------------ state

VARIABLES
    post,           \* useState<NewsPost>: the document
    isExporting,    \* useState(false)
    dragTarget,     \* useState<DragTarget>(null): the classifier's activeTarget
    dragStart,      \* useState({x: 0, y: 0}): the classifier's startPoint
    isDragging,     \* useState(false): the classifier's dragged flag
    isSaving,       \* useState(false): the saving indicator
    picker,         \* file selection surface open for "main" / "circle", or "none"
    readers,        \* FileReader reads in flight: set of [type, result, stale],
                    \* stale telling whether the document has changed since
                    \* the read was started
    lastLoad,       \* history: <<[type, edited]>> of the latest completed read,
                    \* edited telling whether the document had changed since the
                    \* read was started; <<>> before the first
    captured,       \* region whose element holds the pointer capture, or Null:
                    \* a pointer interaction is in progress iff captured # Null
    pointer,        \* history: coordinates of the latest event of the interaction
    exceeded,       \* history: some move of the interaction exceeded Threshold
    upKind,         \* history: how the latest pointer-up ended its interaction
    upCalls,        \* history: handlePointerUp calls made for the latest pointer-up
    exportRuns,     \* downloadPost invocations in flight: sequence of positions
                    \* "fonts", "settle", "capture", "alert"
    exportLog,      \* history: what became of the export requests, in order
    timers,         \* pending debounce timeouts: set of [doc, remaining]
    savingTimers,   \* pending setIsSaving(false) timeouts: set of remaining ms
    writes,         \* idb.set calls in flight: [open |-> documents whose idb.open
                    \* is pending, put |-> documents whose put request is pending,
                    \* in the order the requests were made], with the history
                    \* fields overlapped (the latest save was issued while an
                    \* earlier write was pending), lastFailed (the write of the
                    \* latest save failed) and hung (a put request has failed,
                    \* so its idb.set never settles)
    store,          \* <<value stored under STATE_KEY>>, or <<>> when there is none
    loadPc,         \* position of the initial idb.get: "open", "get", "done", "failed"
    sinceChange,    \* history: ms since the document last changed (<= DebounceMs)
    savesSinceChange, \* history: save calls issued since the document last changed
    burst,          \* history: document changes made in a row, each while the
                    \* timeout of the one before was pending (counted up to MaxBurst)
    swPc,           \* the service worker: "installing", "active" or "redundant"
    cache,          \* the Cache Storage: function from the cached URLs to the
                    \* response bodies stored for them
    fetches,        \* fetch events being handled: set of [url, pc], pc being
                    \* "match" (caches.match pending) or "network" (fetch pending)
    answered        \* history: <<[url, body, from]>> of the latest response given
                    \* to a fetch event, from "cache" or "network"; <<>> before

gestureVars == <<dragTarget, dragStart, isDragging, captured, pointer, exceeded,
                 upKind, upCalls>>
assetVars == <<picker, lastLoad>>
exportVars == <<isExporting, exportRuns, exportLog>>
saveVars == <<isSaving, savingTimers, writes, store, loadPc>>
docVars == <<post, readers, timers, sinceChange, savesSinceChange, burst>>
cacheVars == <<swPc, cache, fetches, answered>>
vars == <<gestureVars, assetVars, exportVars, saveVars, docVars, cacheVars>>

\* ------------------------------------------------------------------ helpers

Abs(n) == IF n < 0 THEN 0 - n ELSE n
Max(a, b) == IF a >= b THEN a ELSE b
Min(a, b) == IF a <= b THEN a ELSE b

\* Math.max(lo, Math.min(hi, v))
ClampNoFloor(v, lo, hi) == Min(hi, v)
Clamp(v, lo, hi) == Max(lo, Min(hi, v))

\* clearTimeout(timeout) in the effect's cleanup: the pending timeout is gone.
KeepTimeouts(ts) == ts
ClearTimeout(ts) == {}

\* The debounced-save effect, re-run by every change of post:
\* the cleanup clears the previous timeout and a new one is set for the new
\* document value.
SaveEffect(newPost) ==
    /\ timers' = ClearTimeout(timers) \cup {[doc |-> newPost, remaining |-> DebounceMs]}
    /\ sinceChange' = 0
    /\ savesSinceChange' = 0
    /\ burst' = IF timers # {} THEN Min(burst + 1, MaxBurst) ELSE 1

\* The reads in flight, once the document has become newPost.
Outdated(rs, newPost) == {[r EXCEPT !.stale = r.stale \/ newPost # post] : r \in rs}

\* setPost(newPost) followed by the render it causes.
SetPost(newPost) ==
    /\ post' = newPost
    /\ readers' = Outdated(readers, newPost)
    /\ SaveEffect(newPost)

\* ------------------------------------------------------------------ gestures

\* dx > 5 || dy > 5
ExceedsInclusive(p, start) ==
    Abs(p.x - start.x) >= Threshold \/ Abs(p.y - start.y) >= Threshold
Exceeds(p, start) ==
    Abs(p.x - start.x) > Threshold \/ Abs(p.y - start.y) > Threshold

\* if (dx > 5 || dy > 5) setIsDragging(true): the flag is only ever raised.
ClassifyLatest(dragging, p, start) == Exceeds(p, start)
Classify(dragging, p, start) == dragging \/ Exceeds(p, start)

\* xPct and yPct of handlePointerMove, as fixed-point percentages.
XPctFromLeft(p, rect) == ((p.x - rect.left) * 100 * Den) \div rect.width
XPct(p, rect) == ((rect.right - p.x) * 100 * Den) \div rect.width
YPct(p, rect) == ((p.y - rect.top) * 100 * Den) \div rect.height

\* The three branches of the setPost updater of handlePointerMove.
CircleMapper(prev, p, rect) ==
    [prev EXCEPT
        !.circleX = Clamp(XPct(p, rect) - (prev.circleSize * Den) \div 2,
                          0, (100 - prev.circleSize) * Den),
        !.circleY = Clamp(YPct(p, rect) - (prev.circleSize * Den) \div 2,
                          0, (100 - prev.circleSize) * Den)]

BackgroundMapperUnclamped(prev, p, rect) ==
    [prev EXCEPT !.mainImageY = YPct(p, rect)]
BackgroundMapper(prev, p, rect) ==
    [prev EXCEPT !.mainImageY = Clamp(YPct(p, rect), 0, 100 * Den)]

HeadlineMapperFloored(prev, p, rect) ==
    [prev EXCEPT !.headlineY =
        Max(0, (rect.bottom - p.y)
                 - (IF prev.format = "9:16" THEN BaselinePortrait ELSE BaselineOther))]
HeadlineMapper(prev, p, rect) ==
    [prev EXCEPT !.headlineY =
        (rect.bottom - p.y)
            - (IF prev.format = "9:16" THEN BaselinePortrait ELSE BaselineOther)]

MapperEveryBranch(target, prev, p, rect) ==
    HeadlineMapper(BackgroundMapper(CircleMapper(prev, p, rect), p, rect), p, rect)
Mapper(target, prev, p, rect) ==
    CASE target = "circle" -> CircleMapper(prev, p, rect)
      [] target = "background" -> BackgroundMapper(prev, p, rect)
      [] target = "headline" -> HeadlineMapper(prev, p, rect)

\* A region can receive pointer events when it is rendered: the circle only
\* while post.circleImage is set.
Rendered(r) == r = "circle" => post.circleImage # Null

\* alert() blocks the page's event loop until it is dismissed.
AlertOpen == \E i \in DOMAIN exportRuns : exportRuns[i] = "alert"

\* No modal file selection surface covers the page and no alert blocks it.
PageInteractive == picker = "none" /\ ~AlertOpen

\* e.stopPropagation() in the pointer-down and pointer-up handlers of the
\* circle and of the headline block.
StopsPropagationNever(r) == FALSE
StopsPropagation(r) == r \in {"circle", "headline"}

\* The regions whose handler runs for an event delivered to region r, in the
\* order they run: the event bubbles from r to the preview, which contains the
\* circle and the headline block, unless the handler of r stops it.
Handlers(r) ==
    IF r = "background" \/ StopsPropagation(r) THEN <<r>> ELSE <<r, "background">>

\* handlePointerDown(e, target), run by every handler the pointer-down on
\* region r reaches; the last setDragTarget is the one the render shows.  The
\* capture is set on e.target, the innermost element.  A new interaction
\* starts only when none is in progress.
PointerDown(r, p) ==
    /\ PageInteractive
    /\ captured = Null
    /\ Rendered(r)
    /\ captured' = r
    /\ dragTarget' = Handlers(r)[Len(Handlers(r))]
    /\ dragStart' = p
    /\ isDragging' = FALSE
    /\ pointer' = p
    /\ exceeded' = FALSE
    /\ UNCHANGED <<upKind, upCalls, assetVars, exportVars, saveVars, docVars>>
    /\ UNCHANGED cacheVars

\* handlePointerMove(e), the preview's onPointerMove; it runs for moves of a
\* captured pointer and for moves of a pointer hovering over the preview.
PointerMove(p, rect) ==
    /\ PageInteractive
    /\ IF dragTarget = Null
         THEN UNCHANGED <<gestureVars, docVars>>
         ELSE /\ isDragging' = Classify(isDragging, p, dragStart)
              /\ SetPost(Mapper(dragTarget, post, p, rect))
              /\ pointer' = IF captured # Null THEN p ELSE pointer
              /\ exceeded' = IF captured # Null
                               THEN exceeded \/ Exceeds(p, dragStart)
                               ELSE exceeded
              /\ UNCHANGED <<dragTarget, dragStart, captured, upKind, upCalls>>
    /\ UNCHANGED <<assetVars, exportVars, saveVars>>
    /\ UNCHANGED cacheVars

\* The target argument handlePointerUp is called with by the region that
\* receives the event: the preview passes dragTarget, the circle and the
\* headline pass their own name.
UpTarget(r) == IF r = "background" THEN dragTarget ELSE r

\* The file input handlePointerUp clicks for a tap on target.
TapPicker(dragging, target) ==
    IF ~dragging /\ target # Null
      THEN CASE target = "background" -> "main"
             [] target = "circle" -> "circle"
             [] OTHER -> "none"
      ELSE "none"

\* History: the interaction a pointer-up ends was a tap (no move exceeded the
\* threshold), a drag, a drag whose pointer came back to the start point, or
\* there was no interaction (the pointer was pressed outside the preview).
UpKind ==
    CASE captured = Null -> "stray"
      [] ~exceeded -> "tap"
      [] pointer = dragStart -> "dragBack"
      [] OTHER -> "drag"

\* The file input left open by the handlePointerUp calls of a pointer-up on
\* region r; every call sees the isDragging and dragTarget of the same render.
UpPicker(r) ==
    LET hs == Handlers(r)
        first == TapPicker(isDragging, UpTarget(hs[1]))
        last == TapPicker(isDragging, UpTarget(hs[Len(hs)]))
    IN IF last # "none" THEN last ELSE first

\* setDragTarget(null); setIsDragging(false): what handlePointerUp leaves of
\* the interaction state, whether or not its tap branch ran.
ReleasedOnTapOnly(target, dragging) ==
    IF dragging THEN [dragTarget |-> target, isDragging |-> dragging]
                ELSE [dragTarget |-> Null, isDragging |-> FALSE]
Released(target, dragging) == [dragTarget |-> Null, isDragging |-> FALSE]

\* handlePointerUp(e, target) for a pointer-up delivered to region r: the
\* region holding the capture, or, for a pointer pressed outside the preview
\* and released over it, the region under the pointer.
PointerUp(r) ==
    /\ PageInteractive
    /\ Rendered(r)
    /\ captured # Null => r = captured
    /\ picker' = UpPicker(r)
    /\ upCalls' = Len(Handlers(r))
    /\ dragTarget' = Released(dragTarget, isDragging).dragTarget
    /\ isDragging' = Released(dragTarget, isDragging).isDragging
    /\ captured' = Null
    /\ pointer' = NoPoint
    /\ exceeded' = FALSE
    /\ upKind' = UpKind
    /\ UNCHANGED <<dragStart, lastLoad, exportVars, saveVars, docVars>>
    /\ UNCHANGED cacheVars

\* The platform ends the interaction without a pointer-up (pointercancel,
\* lostpointercapture): no handler is registered for either event.
LostPointerCapture ==
    /\ captured # Null
    /\ captured' = Null
    /\ pointer' = NoPoint
    /\ exceeded' = FALSE
    /\ UNCHANGED <<dragTarget, dragStart, isDragging, upKind, upCalls>>
    /\ UNCHANGED <<assetVars, exportVars, saveVars, docVars>>
    /\ UNCHANGED cacheVars


\* ------------------------------------------------------------------ form controls

\* The page's controls are operated between pointer interactions.
ControlsUsable == PageInteractive /\ captured = Null

\* onClick of a format button: setPost({...post, format}).
SetFormat(f) ==
    /\ ControlsUsable
    /\ SetPost([post EXCEPT !.format = f])
    /\ UNCHANGED <<gestureVars, assetVars, exportVars, saveVars>>
    /\ UNCHANGED cacheVars

\* onChange of the circleSize range input (rendered while post.circleImage is
\* set): setPost({...post, circleSize: parseInt(value)}).
SetCircleSize(s) ==
    /\ ControlsUsable
    /\ post.circleImage # Null
    /\ SetPost([post EXCEPT !.circleSize = s])
    /\ UNCHANGED <<gestureVars, assetVars, exportVars, saveVars>>
    /\ UNCHANGED cacheVars

\* onClick of "Remover Círculo": setPost({...post, circleImage: null}).
RemoveCircle ==
    /\ ControlsUsable
    /\ post.circleImage # Null
    /\ SetPost([post EXCEPT !.circleImage = Null])
    /\ UNCHANGED <<gestureVars, assetVars, exportVars, saveVars>>
    /\ UNCHANGED cacheVars

\* onClick of "Adicionar Círculo" (rendered while post.circleImage is null):
\* circleInputRef.current?.click().
AddCircle ==
    /\ ControlsUsable
    /\ post.circleImage = Null
    /\ picker' = "circle"
    /\ UNCHANGED <<lastLoad, gestureVars, exportVars, saveVars, docVars>>
    /\ UNCHANGED cacheVars

\* The remaining controls: brand name, headline, colours, headline scale and
\* the circle image's zoom and pan; each is setPost({...post, field: value}).
FormValues ==
    [ brandName        |-> {"EZEN NEWS", "ACME"},
      headline         |-> Headlines,
      highlightColor   |-> {"#00D1FF", "#FFFFFF"},
      brandColor       |-> {"#FF0055", "#000000"},
      headlineSize     |-> {40, 160},
      circleImageScale |-> {10, 30},
      circleImageY     |-> {0, 50, 100} ]
CircleFields == {"circleImageScale", "circleImageY"}
SetField(field, v) ==
    /\ ControlsUsable
    /\ field \in CircleFields => post.circleImage # Null
    /\ SetPost([post EXCEPT ![field] = v])
    /\ UNCHANGED <<gestureVars, assetVars, exportVars, saveVars>>
    /\ UNCHANGED cacheVars

\* ------------------------------------------------------------------ headline rendering

\* The index of the first tok in text at or after from; 0 when there is none.
IndexFrom(text, tok, from) ==
    LET found == {i \in from..Len(text) : text[i] = tok}
    IN IF found = {} THEN 0 ELSE CHOOSE i \in found : \A j \in found : i <= j

\* /\{.*?\}/ tried at index j: the index of the "}" that ends the match, 0
\* when there is no match at j.  The lazy .*? stops at the first "}", and "."
\* matches no line terminator.
MatchEnd(text, j) ==
    IF text[j] # "{"
      THEN 0
      ELSE LET k == IndexFrom(text, "}", j + 1)
           IN IF k # 0 /\ \A m \in (j + 1)..(k - 1) : text[m] # "\n" THEN k ELSE 0

\* text.split(/(\{.*?\})/): the text before the leftmost match, the match,
\* and the split of what follows it; the whole text when nothing matches.
RECURSIVE Split(_)
Split(text) ==
    LET starts == {j \in DOMAIN text : MatchEnd(text, j) # 0}
    IN IF starts = {}
         THEN <<text>>
         ELSE LET j == CHOOSE i \in starts : \A l \in starts : i <= l
                  k == MatchEnd(text, j)
              IN <<SubSeq(text, 1, j - 1), SubSeq(text, j, k)>>
                     \o Split(SubSeq(text, k + 1, Len(text)))

\* renderHeadline(text): a part that starts with "{" and ends with "}" becomes
\* a span in highlightColor holding part.slice(1, -1); any other part is
\* rendered as it is.
RenderHeadline(text) ==
    LET parts == Split(text)
    IN [i \in DOMAIN parts |->
          IF /\ parts[i] # <<>>
             /\ parts[i][1] = "{"
             /\ parts[i][Len(parts[i])] = "}"
            THEN [highlighted |-> TRUE,
                  text |-> SubSeq(parts[i], 2, Len(parts[i]) - 1)]
            ELSE [highlighted |-> FALSE, text |-> parts[i]]]

\* ------------------------------------------------------------------ asset loading

\* The document field an upload of the given type replaces.
ImageFieldSwapped(type) == IF type = "main" THEN "circleImage" ELSE "mainImage"
ImageField(type) == IF type = "main" THEN "mainImage" ELSE "circleImage"

\* The user picks a file in the open file selection surface: the input's
\* change event runs handleImageUpload(e, type), which starts a read.
\* The document once handleImageUpload has started the read: nothing is set
\* before reader.onloadend.
ResetAtReadStart(prev, type) == DefaultPost
DocAtReadStart(prev, type) == prev

PickFile(result) ==
    /\ picker # "none"
    /\ Cardinality(readers) < MaxReaders
    /\ readers' = readers \cup {[type |-> picker, result |-> result, stale |-> FALSE]}
    /\ picker' = "none"
    /\ post' = DocAtReadStart(post, picker)
    /\ UNCHANGED <<timers, sinceChange, savesSinceChange, burst>>
    /\ UNCHANGED <<lastLoad, gestureVars, exportVars, saveVars>>
    /\ UNCHANGED cacheVars

\* The user dismisses the file selection surface: no change event.
CancelPicker ==
    /\ picker # "none"
    /\ picker' = "none"
    /\ UNCHANGED <<lastLoad, gestureVars, exportVars, saveVars, docVars>>
    /\ UNCHANGED cacheVars

\* reader.onloadend: setPost(prev => ({...prev, [field]: reader.result})).
ReaderLoadEnd(r) ==
    /\ r \in readers
    /\ LET newPost == [post EXCEPT ![ImageField(r.type)] = r.result]
       IN /\ post' = newPost
          /\ readers' = Outdated(readers \ {r}, newPost)
          /\ SaveEffect(newPost)
    /\ lastLoad' = <<[type |-> r.type, edited |-> r.stale]>>
    /\ UNCHANGED <<picker, gestureVars, exportVars, saveVars>>
    /\ UNCHANGED cacheVars

\* ------------------------------------------------------------------ export

\* Removal of the i-th element of a sequence.
RemoveAt(seq, i) == [j \in 1..(Len(seq) - 1) |-> IF j < i THEN seq[j] ELSE seq[j + 1]]

\* html2canvas calls in flight.
RasterCalls == Cardinality({i \in DOMAIN exportRuns : exportRuns[i] = "capture"})

\* if (!previewRef.current || isExporting) return;  the preview is mounted
\* for the whole life of the component.
ExportNeverRejected(exporting) == FALSE
ExportRejected(exporting) == exporting

\* finally { setIsExporting(false) }
FinallyFlag(exporting) == FALSE

\* The flag after the catch block has shown the alert and the finally block
\* has run.
CatchWithoutFinally(exporting) == exporting
FlagAfterCatch(exporting) == FinallyFlag(exporting)

\* downloadPost() up to its first await: an export request.
ExportRequest ==
    /\ ~AlertOpen
    /\ Len(exportLog) < MaxExportLog
    /\ IF ExportRejected(isExporting)
         THEN /\ exportLog' = Append(exportLog, "ignored")
              /\ UNCHANGED <<isExporting, exportRuns>>
         ELSE /\ isExporting' = TRUE
              /\ exportRuns' = Append(exportRuns, "fonts")
              /\ exportLog' = Append(exportLog, "started")
    /\ UNCHANGED <<gestureVars, assetVars, saveVars, docVars>>
    /\ UNCHANGED cacheVars

\* await document.fonts.ready
FontsReady(i) ==
    /\ ~AlertOpen
    /\ exportRuns[i] = "fonts"
    /\ exportRuns' = [exportRuns EXCEPT ![i] = "settle"]
    /\ UNCHANGED <<isExporting, exportLog, gestureVars, assetVars, saveVars, docVars>>
    /\ UNCHANGED cacheVars

\* await new Promise(r => setTimeout(r, 200)), then html2canvas is called.
SettleElapsed(i) ==
    /\ ~AlertOpen
    /\ exportRuns[i] = "settle"
    /\ exportRuns' = [exportRuns EXCEPT ![i] = "capture"]
    /\ UNCHANGED <<isExporting, exportLog, gestureVars, assetVars, saveVars, docVars>>
    /\ UNCHANGED cacheVars

\* html2canvas resolves, the link is clicked, and the finally block runs.
CaptureSucceeds(i) ==
    /\ ~AlertOpen
    /\ exportRuns[i] = "capture"
    /\ exportRuns' = RemoveAt(exportRuns, i)
    /\ isExporting' = FinallyFlag(isExporting)
    /\ exportLog' = Append(exportLog, "downloaded")
    /\ UNCHANGED <<gestureVars, assetVars, saveVars, docVars>>
    /\ UNCHANGED cacheVars

\* html2canvas rejects, or canvas.toDataURL throws: the catch block shows the
\* alert.
CaptureThrows(i) ==
    /\ ~AlertOpen
    /\ exportRuns[i] = "capture"
    /\ exportRuns' = [exportRuns EXCEPT ![i] = "alert"]
    /\ exportLog' = Append(exportLog, "failed")
    /\ UNCHANGED <<isExporting, gestureVars, assetVars, saveVars, docVars>>
    /\ UNCHANGED cacheVars

\* The alert is dismissed and the finally block runs.
AlertDismissed(i) ==
    /\ exportRuns[i] = "alert"
    /\ exportRuns' = RemoveAt(exportRuns, i)
    /\ isExporting' = FlagAfterCatch(isExporting)
    /\ UNCHANGED <<exportLog, gestureVars, assetVars, saveVars, docVars>>
    /\ UNCHANGED cacheVars

\* ------------------------------------------------------------------ persistence

\* Time passes by d ms, up to the next pending timeout: none is overtaken.
Delays == {DebounceMs, SavingMs}
    \cup {t.remaining : t \in timers} \cup savingTimers
Tick(d) ==
    /\ d > 0
    /\ ~AlertOpen
    /\ \A t \in timers : d <= t.remaining
    /\ \A r \in savingTimers : d <= r
    /\ timers' = {[t EXCEPT !.remaining = @ - d] : t \in timers}
    /\ savingTimers' = {r - d : r \in savingTimers}
    /\ sinceChange' = Min(sinceChange + d, DebounceMs)
    /\ UNCHANGED <<post, readers, savesSinceChange, burst, isSaving, writes, store,
                   loadPc, gestureVars, assetVars, exportVars>>
    /\ UNCHANGED cacheVars

\* The debounce timeout's callback: setIsSaving(true); idb.set(STATE_KEY, post)
\* with the post of the render that set the timeout.
SaveTimerFires(t) ==
    /\ ~AlertOpen
    /\ t \in timers
    /\ t.remaining = 0
    /\ Len(writes.open) + Len(writes.put) < MaxWrites
    /\ timers' = timers \ {t}
    /\ isSaving' = TRUE
    /\ writes' = [writes EXCEPT !.open = Append(@, t.doc),
                                !.overlapped = writes.open # <<>> \/ writes.put # <<>>,
                                !.lastFailed = FALSE]
    /\ savesSinceChange' = savesSinceChange + 1
    /\ UNCHANGED <<post, readers, sinceChange, burst, savingTimers, store, loadPc,
                   gestureVars, assetVars, exportVars>>
    /\ UNCHANGED cacheVars

\* .finally(() => setTimeout(() => setIsSaving(false), 800))
Finally(ts) == ts \cup {SavingMs}

\* indexedDB.open(DB_NAME, 1): the open requests made on one database are
\* served in the order they were made, the request of the initial idb.get
\* first and then those of the saves, oldest first.
OpenServedAnyOrder(i) == TRUE
OpenServed(i) == loadPc # "open" /\ i = 1

\* Transactions on the one object store run in the order they were created:
\* the get of the initial load, created before any put, comes first.
PutServed == loadPc # "get"

\* idb.open() of an idb.set resolves: the put request is made.
WriteOpens(i) ==
    /\ ~AlertOpen
    /\ i \in DOMAIN writes.open
    /\ OpenServed(i)
    /\ writes' = [writes EXCEPT !.open = RemoveAt(@, i),
                                !.put = Append(@, writes.open[i])]
    /\ UNCHANGED <<isSaving, savingTimers, store, loadPc,
                   gestureVars, assetVars, exportVars, docVars>>
    /\ UNCHANGED cacheVars

\* idb.open() of an idb.set rejects (request.onerror): idb.set rejects and the
\* finally callback runs.
WriteOpenFails(i) ==
    /\ ~AlertOpen
    /\ i \in DOMAIN writes.open
    /\ OpenServed(i)
    /\ writes' = [writes EXCEPT !.open = RemoveAt(@, i),
                                !.lastFailed = @ \/ i = Len(writes.open)]
    /\ savingTimers' = Finally(savingTimers)
    /\ UNCHANGED <<isSaving, store, loadPc,
                   gestureVars, assetVars, exportVars, docVars>>
    /\ UNCHANGED cacheVars

\* The oldest put request succeeds (request.onsuccess): the value is stored,
\* idb.set resolves and the finally callback runs.
WritePutSucceeds ==
    /\ ~AlertOpen
    /\ writes.put # <<>>
    /\ PutServed
    /\ store' = <<Head(writes.put)>>
    /\ writes' = [writes EXCEPT !.put = Tail(@)]
    /\ savingTimers' = Finally(savingTimers)
    /\ UNCHANGED <<isSaving, loadPc,
                   gestureVars, assetVars, exportVars, docVars>>
    /\ UNCHANGED cacheVars

\* The oldest put request fails: no onerror handler is set on the request, so
\* the promise of idb.set never settles and the finally callback never runs.
WritePutFails ==
    /\ ~AlertOpen
    /\ writes.put # <<>>
    /\ PutServed
    /\ writes' = [writes EXCEPT !.put = Tail(@),
                                !.lastFailed = @ \/ (Len(writes.put) = 1 /\ writes.open = <<>>),
                                !.hung = TRUE]
    /\ UNCHANGED <<isSaving, savingTimers, store, loadPc,
                   gestureVars, assetVars, exportVars, docVars>>
    /\ UNCHANGED cacheVars

\* setTimeout(() => setIsSaving(false), 800) fires.
SavingTimerFires ==
    /\ ~AlertOpen
    /\ 0 \in savingTimers
    /\ savingTimers' = savingTimers \ {0}
    /\ isSaving' = FALSE
    /\ UNCHANGED <<writes, store, loadPc,
                   gestureVars, assetVars, exportVars, docVars>>
    /\ UNCHANGED cacheVars

\* idb.open() of the initial idb.get resolves: the get request is made.
LoadOpens ==
    /\ ~AlertOpen
    /\ loadPc = "open"
    /\ loadPc' = "get"
    /\ UNCHANGED <<isSaving, savingTimers, writes, store,
                   gestureVars, assetVars, exportVars, docVars>>
    /\ UNCHANGED cacheVars

\* idb.open() of the initial idb.get rejects: nothing is loaded.
LoadOpenFails ==
    /\ ~AlertOpen
    /\ loadPc = "open"
    /\ loadPc' = "failed"
    /\ UNCHANGED <<isSaving, savingTimers, writes, store,
                   gestureVars, assetVars, exportVars, docVars>>
    /\ UNCHANGED cacheVars

\* The get request succeeds: if (savedPost) setPost(savedPost).
LoadGets ==
    /\ ~AlertOpen
    /\ loadPc = "get"
    /\ loadPc' = "done"
    /\ IF store # <<>> THEN SetPost(store[1]) ELSE UNCHANGED docVars
    /\ UNCHANGED <<isSaving, savingTimers, writes, store,
                   gestureVars, assetVars, exportVars>>
    /\ UNCHANGED cacheVars

\* ------------------------------------------------------------------ service worker

\* event.request.url.includes(pattern): a URL is a sequence of tokens and the
\* patterns looked for are whole tokens.
Includes(url, pattern) == \E i \in DOMAIN url : url[i] = pattern

\* url.includes('esm.sh') || url.includes('googlefonts')
CachedOnTheFlyAlways(url) == TRUE
CachedOnTheFly(url) == Includes(url, "esm.sh") \/ Includes(url, "googlefonts")

\* The cache with body stored for url: cache.put(request, response).
CachePut(c, url, body) ==
    [u \in DOMAIN c \cup {url} |-> IF u = url THEN body ELSE c[u]]

\* install: cache.addAll(ASSETS_TO_CACHE) resolves and the worker is activated.
InstallSucceeds ==
    /\ swPc = "installing"
    /\ swPc' = "active"
    /\ cache' = [u \in DOMAIN cache \cup ASSETS_TO_CACHE |-> "installed"]
    /\ UNCHANGED <<fetches, answered>>
    /\ UNCHANGED <<gestureVars, assetVars, exportVars, saveVars, docVars>>

\* install: cache.addAll rejects (one asset could not be fetched); nothing is
\* stored, the promise given to waitUntil rejects and the worker is discarded.
InstallFails ==
    /\ swPc = "installing"
    /\ swPc' = "redundant"
    /\ UNCHANGED <<cache, fetches, answered>>
    /\ UNCHANGED <<gestureVars, assetVars, exportVars, saveVars, docVars>>

\* A fetch event reaches the active worker: caches.match(event.request).
FetchEvent(url) ==
    /\ swPc = "active"
    /\ Cardinality(fetches) < MaxFetches
    /\ fetches' = fetches \cup {[url |-> url, pc |-> "match"]}
    /\ UNCHANGED <<swPc, cache, answered>>
    /\ UNCHANGED <<gestureVars, assetVars, exportVars, saveVars, docVars>>

\* caches.match resolves: response || fetch(event.request).
MatchResolves(f) ==
    /\ f \in fetches
    /\ f.pc = "match"
    /\ IF f.url \in DOMAIN cache
         THEN /\ fetches' = fetches \ {f}
              /\ answered' = <<[url |-> f.url, body |-> cache[f.url], from |-> "cache"]>>
         ELSE /\ fetches' = (fetches \ {f}) \cup {[f EXCEPT !.pc = "network"]}
              /\ UNCHANGED answered
    /\ UNCHANGED <<swPc, cache>>
    /\ UNCHANGED <<gestureVars, assetVars, exportVars, saveVars, docVars>>

\* fetch(event.request) resolves with a response: it is put in the cache when
\* the URL is one of those cached on the fly, and it is the answer.
NetworkResponds(f, body) ==
    /\ f \in fetches
    /\ f.pc = "network"
    /\ fetches' = fetches \ {f}
    /\ cache' = IF CachedOnTheFly(f.url) THEN CachePut(cache, f.url, body) ELSE cache
    /\ answered' = <<[url |-> f.url, body |-> body, from |-> "network"]>>
    /\ UNCHANGED swPc
    /\ UNCHANGED <<gestureVars, assetVars, exportVars, saveVars, docVars>>

\* fetch(event.request) rejects (offline): the promise given to respondWith
\* rejects and the request fails with a network error.
NetworkFails(f) ==
    /\ f \in fetches
    /\ f.pc = "network"
    /\ fetches' = fetches \ {f}
    /\ answered' = <<[url |-> f.url, body |-> "network error", from |-> "network"]>>
    /\ UNCHANGED <<swPc, cache>>
    /\ UNCHANGED <<gestureVars, assetVars, exportVars, saveVars, docVars>>

\* ------------------------------------------------------------------ initial state

\* The state after the component has mounted: the defaults of useState, the
\* initial idb.get under way and the first debounce timeout set.
Init ==
    /\ post = DefaultPost
    /\ isExporting = FALSE
    /\ dragTarget = Null
    /\ dragStart = Pt(0, 0)
    /\ isDragging = FALSE
    /\ isSaving = FALSE
    /\ picker = "none"
    /\ readers = {}
    /\ lastLoad = <<>>
    /\ captured = Null
    /\ pointer = NoPoint
    /\ exceeded = FALSE
    /\ upKind = "none"
    /\ upCalls = 0
    /\ exportRuns = <<>>
    /\ exportLog = <<>>
    /\ timers = {[doc |-> DefaultPost, remaining |-> DebounceMs]}
    /\ savingTimers = {}
    /\ writes = [open |-> <<>>, put |-> <<>>,
                 overlapped |-> FALSE, lastFailed |-> FALSE, hung |-> FALSE]
    /\ store \in {<<>>, <<StoredPost>>}
    /\ loadPc = "open"
    /\ sinceChange = 0
    /\ savesSinceChange = 0
    /\ burst = 0
    /\ swPc = "installing"
    /\ cache = [u \in {} |-> "none"]
    /\ fetches = {}
    /\ answered = <<>>

\* The same, in a browser in which an earlier session has stored a document.
InitStored == Init /\ store = <<StoredPost>>

\* The same, in a browser in which nothing has been stored yet.
InitFresh == Init /\ store = <<>>

\* ------------------------------------------------------------------ the editor

\* Pointer gestures over the square preview: taps, drags, lost captures, and
\* the file selection surface a tap opens.
Next ==
    \/ \E r \in Regions, p \in StartPoints : PointerDown(r, p)
    \/ \E p \in Points : PointerMove(p, SquareRect)
    \/ \E r \in Regions : PointerUp(r)
    \/ LostPointerCapture
    \/ RemoveCircle
    \/ AddCircle
    \/ CancelPicker

Spec == Init /\ [][Next]_vars

\* The circle's geometry: drags of the circle over previews of either size,
\* the circleSize slider, format changes, and the circle's removal.
NextCircle ==
    \/ \E p \in StartPoints : PointerDown("circle", p)
    \/ \E p \in Points, rect \in Rects : PointerMove(p, rect)
    \/ \E r \in Regions : PointerUp(r)
    \/ \E f \in PostFormat : SetFormat(f)
    \/ \E s \in SizeInputs : SetCircleSize(s)
    \/ RemoveCircle
    \/ AddCircle
    \/ CancelPicker

SpecCircle == Init /\ [][NextCircle]_vars

\* Asset replacement: taps that open the file selection surfaces, reads that
\* succeed or fail, and drags and format changes made while reads are under way.
NextAssets ==
    \/ \E r \in {"background", "circle"} : PointerDown(r, Pt(450, 300))
    \/ PointerMove(Pt(456, 300), SquareRect)
    \/ \E r \in Regions : PointerUp(r)
    \/ \E f \in PostFormat : SetFormat(f)
    \/ RemoveCircle
    \/ AddCircle
    \/ \E res \in ReadResults : PickFile(res)
    \/ CancelPicker
    \/ \E r \in readers : ReaderLoadEnd(r)

SpecAssets == Init /\ [][NextAssets]_vars

\* Drags of each of the three regions over previews of either size, with
\* pointers inside and far outside the preview, next to the operations that
\* replace the format or the whole document.
NextPan ==
    \/ \E r \in Regions : PointerDown(r, Pt(450, 300))
    \/ \E p \in PanPoints, rect \in Rects : PointerMove(p, rect)
    \/ \E r \in Regions : PointerUp(r)
    \/ \E f \in PostFormat : SetFormat(f)
    \/ CancelPicker
    \/ LoadOpens
    \/ LoadGets

SpecPan == Init /\ [][NextPan]_vars

\* What can fail, in a first session: exports, persistence writes, and asset
\* reads that are started and never complete, next to the initial load, which
\* the writes wait for, and the circle's removal, which changes the document
\* and opens the way to the circle's file input.
NextFailures ==
    \/ ExportRequest
    \/ \E i \in DOMAIN exportRuns : FontsReady(i)
    \/ \E i \in DOMAIN exportRuns : SettleElapsed(i)
    \/ \E i \in DOMAIN exportRuns : CaptureSucceeds(i)
    \/ \E i \in DOMAIN exportRuns : CaptureThrows(i)
    \/ \E i \in DOMAIN exportRuns : AlertDismissed(i)
    \/ \E d \in Delays : Tick(d)
    \/ \E t \in timers : SaveTimerFires(t)
    \/ \E i \in DOMAIN writes.open : WriteOpens(i)
    \/ \E i \in DOMAIN writes.open : WriteOpenFails(i)
    \/ WritePutSucceeds
    \/ WritePutFails
    \/ SavingTimerFires
    \/ LoadOpens
    \/ LoadGets
    \/ RemoveCircle
    \/ AddCircle
    \/ \E res \in ReadResults : PickFile(res)
    \/ CancelPicker

SpecFailures == InitFresh /\ [][NextFailures]_vars

\* The service worker: its installation and the fetch events it handles.
NextWorker ==
    \/ InstallSucceeds
    \/ InstallFails
    \/ \E url \in RequestUrls : FetchEvent(url)
    \/ \E f \in fetches : MatchResolves(f)
    \/ \E f \in fetches, body \in NetworkBodies : NetworkResponds(f, body)
    \/ \E f \in fetches : NetworkFails(f)

SpecWorker == Init /\ [][NextWorker]_vars

\* Editing the headline: the textarea sets it to any text.
NextHeadline ==
    \E h \in FormValues.headline : SetField("headline", h)

SpecHeadline == Init /\ [][NextHeadline]_vars

\* PNG export, with the format buttons in use meanwhile.
NextExport ==
    \/ ExportRequest
    \/ \E i \in DOMAIN exportRuns : FontsReady(i)
    \/ \E i \in DOMAIN exportRuns : SettleElapsed(i)
    \/ \E i \in DOMAIN exportRuns : CaptureSucceeds(i)
    \/ \E i \in DOMAIN exportRuns : CaptureThrows(i)
    \/ \E i \in DOMAIN exportRuns : AlertDismissed(i)
    \/ \E f \in PostFormat : SetFormat(f)

SpecExport == Init /\ [][NextExport]_vars

\* Every await of downloadPost settles and the alert is dismissed.
ExportFairness ==
    /\ WF_vars(\E i \in DOMAIN exportRuns : FontsReady(i))
    /\ WF_vars(\E i \in DOMAIN exportRuns : SettleElapsed(i))
    /\ WF_vars(\E i \in DOMAIN exportRuns : CaptureSucceeds(i) \/ CaptureThrows(i))
    /\ WF_vars(\E i \in DOMAIN exportRuns : AlertDismissed(i))

SpecExportFair == SpecExport /\ ExportFairness

\* Debounced persistence: document changes through the headline scale
\* control, the passing of time, the initial load and the writes.
NextPersist ==
    \/ \E v \in FormValues.headlineSize : SetField("headlineSize", v)
    \/ \E d \in Delays : Tick(d)
    \/ \E t \in timers : SaveTimerFires(t)
    \/ \E i \in DOMAIN writes.open : WriteOpens(i)
    \/ \E i \in DOMAIN writes.open : WriteOpenFails(i)
    \/ WritePutSucceeds
    \/ WritePutFails
    \/ SavingTimerFires
    \/ LoadOpens
    \/ LoadOpenFails
    \/ LoadGets

SpecPersist == Init /\ [][NextPersist]_vars

\* Startup over a stored document: the same steps, from InitStored.
SpecStartup == InitStored /\ [][NextPersist]_vars

\* ------------------------------------------------------------------ gesture classifier claims

\* C1: tap vs drag mutual exclusion.  A pointer-up that ends an interaction in
\* which some move exceeded the threshold opens no file picker, wherever the
\* pointer is at the end.
TapDragExclusion ==
    [][\A r \in Regions :
          (PointerUp(r) /\ captured # Null /\ exceeded) => picker' = "none"]_vars

\* C1 witness: a drag whose pointer came back to its start point has ended and
\* no picker is open.
DragBackEndedWithoutTap ==
    upKind = "dragBack" /\ picker = "none" /\ dragTarget = Null

\* The picker a tap on the active target opens, as the specification has it.
ExpectedTap(target) ==
    CASE target = "background" -> "main"
      [] target = "circle" -> "circle"
      [] OTHER -> "none"

\* C2: on pointer-up with dragged = false the tap is for the activeTarget
\* recorded at pointer-down and only for it; with activeTarget None there is no
\* tap, whichever region receives the event.
TapOnlyForActiveTarget ==
    [][\A r \in Regions :
          (PointerUp(r) /\ ~isDragging) => picker' = ExpectedTap(dragTarget)]_vars

\* C3: a pointer-move changes the document only once a move exceeds the
\* threshold: in an interaction in which no move has exceeded it, a further
\* move within the threshold leaves the document as it was at pointer-down.
TapLeavesDocument ==
    [][\A p \in Points :
          (PointerMove(p, SquareRect) /\ captured # Null
              /\ ~exceeded /\ ~Exceeds(p, dragStart)) => post' = post]_vars

\* C4: dragTarget is null whenever no pointer interaction is in progress, also
\* when the interaction ended without a pointer-up.
NoTargetWhenIdle == captured = Null => dragTarget = Null

\* C7: a pointer-move raises dragged iff |dx| > 5 or |dy| > 5 from the start
\* point of the pointer-down; exactly 5 px does not, 6 px does.
ClassifierThreshold ==
    [][\A p \in Points :
          (PointerMove(p, SquareRect) /\ dragTarget # Null /\ ~isDragging)
              => (isDragging' <=> (\/ p.x - dragStart.x > 5
                                   \/ dragStart.x - p.x > 5
                                   \/ p.y - dragStart.y > 5
                                   \/ dragStart.y - p.y > 5))]_vars

\* C7 witness: the pointer has moved exactly 5 px from the start point on both
\* axes and the interaction is not a drag.
FivePixelsIsNoDrag ==
    /\ captured # Null
    /\ Abs(pointer.x - dragStart.x) = 5
    /\ Abs(pointer.y - dragStart.y) = 5
    /\ ~isDragging


\* ------------------------------------------------------------------ circle geometry claims

\* 0 <= v <= 100 - circleSize, for a fixed-point percentage v of document d.
WithinCircleRange(d, v) == 0 <= v /\ v <= (100 - d.circleSize) * Den

\* C5: in every reachable state of the document circleX and circleY lie in
\* [0, 100 - circleSize].
CirclePositionInRange ==
    WithinCircleRange(post, post.circleX) /\ WithinCircleRange(post, post.circleY)

\* C6: circle drag clamping.  After every pointer-move handled with the circle
\* as active target, for all pointer coordinates and every circleSize in
\* [10, 70], 0 <= circleX <= 100 - circleSize and 0 <= circleY <= 100 - circleSize.
CircleDragClamped ==
    [][\A p \in Points, rect \in Rects :
          (/\ PointerMove(p, rect)
           /\ dragTarget = "circle"
           /\ post.circleSize \in CircleSizeMin..CircleSizeMax)
              => (/\ WithinCircleRange(post', post'.circleX)
                  /\ WithinCircleRange(post', post'.circleY))]_vars

\* C6 witness: the circle is being dragged with the pointer far outside the
\* preview (left of it and below it) and sits at its upper bound on both axes.
CircleClampedFarOutside ==
    /\ captured = "circle"
    /\ pointer.x < 0
    /\ pointer.y > 1000
    /\ post.circleX = (100 - post.circleSize) * Den
    /\ post.circleY = (100 - post.circleSize) * Den


\* ------------------------------------------------------------------ export claims

\* C8: single in-flight export.  An export request made while isExporting is
\* true is ignored: it starts no run and queues nothing; and at no time is more
\* than one rasterizer call in flight.
SingleExportInFlight ==
    /\ [](RasterCalls <= 1 /\ Len(exportRuns) <= 1)
    /\ [][(ExportRequest /\ isExporting)
            => UNCHANGED <<isExporting, exportRuns>>]_vars

\* C8 witness: a request was ignored while the rasterizer was running.
RequestIgnoredWhileRasterizing ==
    /\ RasterCalls = 1
    /\ exportLog # <<>>
    /\ exportLog[Len(exportLog)] = "ignored"

\* C9: every export that starts eventually clears isExporting, on success and
\* on a throw; a throw shows the failure notification, after which the flag is
\* cleared and a later request is accepted.
ExportFlagAlwaysCleared ==
    /\ isExporting ~> ~isExporting
    /\ [][\A i \in DOMAIN exportRuns : CaptureThrows(i) => AlertOpen']_vars
    /\ AlertOpen ~> (~AlertOpen /\ ~isExporting)
    /\ [][(ExportRequest /\ ~isExporting) => isExporting']_vars

\* C9 witness: an export failed, its flag was cleared, and the next request
\* was accepted.
ExportAcceptedAfterFailure ==
    \E i \in DOMAIN exportLog :
        /\ exportLog[i] = "failed"
        /\ i < Len(exportLog)
        /\ exportLog[i + 1] = "started"
        /\ isExporting

\* ------------------------------------------------------------------ persistence claims

\* C10: persistence debounce.  At most one timeout is pending, it carries the
\* document of the latest change and is due 1 second after that change; a save
\* call is made only by a timeout that is due, so a run of changes less than
\* 1 second apart yields exactly one save call, with the last document.
DebounceOneSave ==
    /\ [](/\ Cardinality(timers) <= 1
          /\ \A t \in timers :
                t.doc = post /\ t.remaining + sinceChange = DebounceMs
          /\ savesSinceChange <= 1
          /\ (timers = {} <=> savesSinceChange = 1))
    /\ [][\A t \in timers :
            SaveTimerFires(t)
                => (/\ sinceChange = DebounceMs
                    /\ writes'.open[Len(writes'.open)] = post)]_vars

\* C10 witness: after a run of at least two changes, each made while the
\* timeout of the one before was pending and after some time had passed, the
\* one save call of the run has been made.
BurstSavedOnce ==
    /\ burst >= 2
    /\ savesSinceChange = 1
    /\ timers = {}


\* ------------------------------------------------------------------ asset loading claims

\* C11: the completion of an asset load replaces exactly one field, mainImage
\* for a main upload and circleImage for a circle upload, and leaves every
\* other field as it is when the load completes, whatever changed the document
\* since the read was started.
LoadReplacesOneField ==
    [][\A r \in readers :
          ReaderLoadEnd(r)
              => LET field == IF r.type = "main" THEN "mainImage" ELSE "circleImage"
                 IN /\ post'[field] = r.result
                    /\ \A f \in DOMAIN post \ {field} : post'[f] = post[f]]_vars

\* C11 witness: a read has completed on a document that had changed since the
\* read was started, and the change is still there next to the new image.
LoadCompletedOverEdits ==
    /\ lastLoad # <<>>
    /\ lastLoad[1].edited
    /\ post.mainImage = DataUrl("fileA")
    /\ post.format # DefaultPost.format

\* ------------------------------------------------------------------ persistence failure claims

\* C12: every save that raises isSaving is followed by isSaving = FALSE after
\* the fixed delay, whether the write succeeds, fails to open the store or fails
\* at the put request. While isSaving is raised, something that will lower it
\* is therefore under way: a write whose outcome is pending, the 800 ms timeout
\* of a finished write, the debounce timeout of a later save, or the initial
\* load that may still replace the document and so cause a later save.
SavingIndicatorWillClear ==
    isSaving => \/ writes.open # <<>>
                \/ writes.put # <<>>
                \/ savingTimers # {}
                \/ timers # {}
                \/ loadPc \in {"open", "get"}

\* ------------------------------------------------------------------ interaction state claims

\* C13: a pointer-down on the circle or on the headline block, both layered
\* over the background, tags only that region: dragTarget is that region, not
\* background, for as long as the interaction lasts, and the pointer-up that
\* ends it runs handlePointerUp exactly once.
InnermostRegionOnly ==
    /\ [](captured \in {"circle", "headline"} => dragTarget = captured)
    /\ [][\A r \in {"circle", "headline"} :
             /\ (\E p \in StartPoints \cup Points : PointerDown(r, p))
                    => dragTarget' = r
             /\ (captured = r /\ PointerUp(r)) => upCalls' = 1]_vars

\* C13 witness: a tap on the circle has ended; its pointer-up ran
\* handlePointerUp once and opened the circle's file input, not the main one.
CircleTapHandledOnce ==
    upKind = "tap" /\ upCalls = 1 /\ picker = "circle"

\* C14: after every pointer-up, whether it ended a tap or a drag and whatever
\* the target, dragTarget is null and isDragging is false; after every
\* pointer-down on a region, dragTarget is that region, dragStart is the
\* event's coordinates and isDragging is false.
InteractionStateReset ==
    [][/\ (\E r \in Regions : PointerUp(r))
            => dragTarget' = Null /\ isDragging' = FALSE
       /\ \A r \in Regions : \A p \in StartPoints \cup Points :
            PointerDown(r, p)
                => dragTarget' = r /\ dragStart' = p /\ isDragging' = FALSE]_vars

\* C14 witness: a drag has been ended by its pointer-up and the headline block
\* has been pressed since: the target is the headline, the start point is where
\* the pointer went down and the drag flag of the earlier drag is gone.
PressedAfterDragEnded ==
    /\ upKind = "drag"
    /\ captured = "headline"
    /\ dragTarget = "headline"
    /\ dragStart = pointer
    /\ ~isDragging

\* ------------------------------------------------------------------ drag mapping claims

\* C15: mainImageY is within [0, 100] in every reachable state: every
\* background drag sets it to ((pointerY - rect.top) / rect.height) * 100
\* brought into [0, 100], wherever the pointer is, and no other operation
\* moves it out of that range.
MainImageYInRange ==
    /\ [](0 <= post.mainImageY /\ post.mainImageY <= 100 * Den)
    /\ [][\A p \in PanPoints, rect \in Rects :
             (dragTarget = "background" /\ PointerMove(p, rect))
                 => LET y == ((p.y - rect.top) * 100 * Den) \div rect.height
                    IN post'.mainImageY =
                         IF y < 0 THEN 0 ELSE IF y > 100 * Den THEN 100 * Den ELSE y]_vars

\* C15 witness: the background is being dragged with the pointer far below the
\* preview and mainImageY stands at 100.
BackgroundDraggedFarBelow ==
    /\ captured = "background"
    /\ pointer = Pt(0 - 1200, 4800)
    /\ post.mainImageY = 100 * Den

\* C19: a pointer-move changes only the fields of the document owned by the
\* active target: mainImageY for the background, circleX and circleY for the
\* circle, headlineY for the headline; with no active target it changes
\* neither the document nor the state of the tap/drag classifier.
MoveChangesOwnedFieldsOnly ==
    [][\A p \in PanPoints, rect \in Rects :
          PointerMove(p, rect)
              => LET owned == CASE dragTarget = "background" -> {"mainImageY"}
                                [] dragTarget = "circle" -> {"circleX", "circleY"}
                                [] dragTarget = "headline" -> {"headlineY"}
                                [] OTHER -> {}
                 IN /\ \A f \in DOMAIN post \ owned : post'[f] = post[f]
                    /\ dragTarget = Null
                          => UNCHANGED <<post, isDragging, dragStart, dragTarget>>]_vars

\* C19 witness: the circle has been dragged away from its default place while
\* mainImageY and headlineY are still the defaults.
CircleDraggedAlone ==
    /\ captured = "circle"
    /\ exceeded
    /\ post.circleX # DefaultPost.circleX
    /\ post.circleY # DefaultPost.circleY
    /\ post.mainImageY = DefaultPost.mainImageY
    /\ post.headlineY = DefaultPost.headlineY

\* C20: a pointer-move with the headline as the active target sets headlineY to
\* (rect.bottom - pointerY) - baseline, the baseline being 180 in the portrait
\* format (9:16) and 100 in the square and landscape formats; the result is
\* not clamped.
HeadlineDragOffset ==
    [][\A p \in PanPoints, rect \in Rects :
          (dragTarget = "headline" /\ PointerMove(p, rect))
              => post'.headlineY =
                    (rect.bottom - p.y) - (IF post.format = "9:16" THEN 180 ELSE 100)]_vars

\* C20 witness: in the portrait format the headline has been dragged with the
\* pointer far below the 600 px high preview: headlineY is 600 - 4800 - 180.
HeadlineDraggedBelowPreview ==
    /\ captured = "headline"
    /\ post.format = "9:16"
    /\ pointer = Pt(0 - 1200, 4800)
    /\ post.headlineY = 0 - 4380

\* C17: a circle drag maps the pointer to the circle's centre, measured from
\* the right edge: circleX is ((rect.right - pointerX) / rect.width) * 100 -
\* circleSize/2 and circleY is ((pointerY - rect.top) / rect.height) * 100 -
\* circleSize/2, each brought into [0, 100 - circleSize].  For a 600 x 600
\* preview at the origin, circleSize 30 and the pointer at (450, 300) this is
\* circleX = 10 and circleY = 35.
CircleCentreFromRight ==
    [][\A p \in Points, rect \in Rects :
          (dragTarget = "circle" /\ PointerMove(p, rect))
              => LET half == (post.circleSize * Den) \div 2
                     hi == (100 - post.circleSize) * Den
                     x == ((rect.right - p.x) * 100 * Den) \div rect.width - half
                     y == ((p.y - rect.top) * 100 * Den) \div rect.height - half
                 IN /\ post'.circleX = IF x < 0 THEN 0 ELSE IF x > hi THEN hi ELSE x
                    /\ post'.circleY = IF y < 0 THEN 0 ELSE IF y > hi THEN hi ELSE y]_vars

\* C17 witness: the circle of size 30 has been dragged to (450, 300) and sits
\* at circleX = 10, circleY = 35.
CircleCentredAtPointer ==
    /\ captured = "circle"
    /\ pointer = Pt(450, 300)
    /\ post.circleSize = 30
    /\ post.circleX = 10 * Den
    /\ post.circleY = 35 * Den

\* ------------------------------------------------------------------ failure claims

\* C16: no failure corrupts the in-memory document: every step of an export,
\* whether it ends in a download or in a thrown error, every step of a
\* persistence write, whether it succeeds or fails, and the start of an asset
\* read that never completes leave every field of the document unchanged.
FailuresKeepDocument ==
    [][(\/ ExportRequest
        \/ \E i \in DOMAIN exportRuns :
              \/ FontsReady(i)
              \/ SettleElapsed(i)
              \/ CaptureSucceeds(i)
              \/ CaptureThrows(i)
              \/ AlertDismissed(i)
        \/ \E t \in timers : SaveTimerFires(t)
        \/ \E i \in DOMAIN writes.open : WriteOpens(i) \/ WriteOpenFails(i)
        \/ WritePutSucceeds
        \/ WritePutFails
        \/ SavingTimerFires
        \/ \E res \in ReadResults : PickFile(res))
            => \A f \in DOMAIN post : post'[f] = post[f]]_vars

\* C16 witness: an export has thrown, a put request has failed and left the
\* saving indicator raised with nothing pending, a read is in flight, and the
\* document is the one the user left: the default without its circle.
DocumentIntactAfterFailures ==
    /\ \E i \in DOMAIN exportLog : exportLog[i] = "failed"
    /\ isSaving /\ writes.open = <<>> /\ writes.put = <<>>
    /\ savingTimers = {} /\ timers = {}
    /\ store = <<>>
    /\ readers # {}
    /\ post = [DefaultPost EXCEPT !.circleImage = Null]

\* ------------------------------------------------------------------ headline claims

\* The braces of text are balanced and not nested: "{" and "}" alternate,
\* starting with "{" and ending with "}".
WellBraced(text) ==
    LET braces == SelectSeq(text, LAMBDA t : t \in {"{", "}"})
    IN /\ Len(braces) % 2 = 0
       /\ \A i \in DOMAIN braces : braces[i] = IF i % 2 = 1 THEN "{" ELSE "}"

\* The segments a well-braced text is made of: the text outside braces, not
\* highlighted, and the inner text of each pair of braces, highlighted.
RECURSIVE Marked(_)
Marked(text) ==
    IF text = <<>>
      THEN <<>>
      ELSE LET j == IndexFrom(text, "{", 1)
               k == IndexFrom(text, "}", j + 1)
           IN IF j = 0
                THEN <<[highlighted |-> FALSE, text |-> text]>>
                ELSE (IF j > 1
                        THEN <<[highlighted |-> FALSE, text |-> SubSeq(text, 1, j - 1)]>>
                        ELSE <<>>)
                     \o <<[highlighted |-> TRUE, text |-> SubSeq(text, j + 1, k - 1)]>>
                     \o Marked(SubSeq(text, k + 1, Len(text)))

\* The segments that show: empty pieces of plain text are nothing on screen.
Visible(segments) ==
    SelectSeq(segments, LAMBDA seg : seg.highlighted \/ seg.text # <<>>)

\* C18: for a headline whose braces are balanced and not nested, the rendered
\* segments are, in order, the text outside braces in the default colour and
\* the inner text of each pair of braces highlighted, with the brace characters
\* removed and no other character lost, reordered or duplicated.
HeadlineSegmentsAsMarked ==
    WellBraced(post.headline)
        => Visible(RenderHeadline(post.headline)) = Marked(post.headline)

\* ------------------------------------------------------------------ startup and convergence claims

\* C21: startup does not destroy persisted data: when a document is already
\* stored, the default document is never written to the store in its place,
\* whatever the order in which the initial load completes and the first
\* debounced save fires.
StoredDocumentNotReplacedByDefault ==
    store # <<DefaultPost>>

\* Document changes have stopped and nothing is under way: no debounce timeout
\* is pending, no write is in flight and the initial load has ended.
Quiescent ==
    /\ timers = {}
    /\ writes.open = <<>>
    /\ writes.put = <<>>
    /\ loadPc \in {"done", "failed"}

\* C22 as stated: once document changes have stopped and every started write
\* has settled, fulfilled or rejected, the stored document equals the document
\* in memory.
StoredConvergesOnceSettled ==
    (Quiescent /\ ~writes.hung) => store = <<post>>

\* C22, amended: once document changes have stopped and the write of the
\* latest save has succeeded, the stored document equals the document in
\* memory, also when that save was issued before the write of an earlier save
\* had settled: the earlier document is not the one left in the store.
StoredConvergesOnceWritten ==
    (Quiescent /\ ~writes.lastFailed) => store = <<post>>

\* C22 witness: the latest save was issued while the write of an earlier one
\* was pending, both are over, and the store holds the edited document that is
\* in memory.
ConvergedAfterOverlap ==
    /\ Quiescent
    /\ writes.overlapped
    /\ ~writes.lastFailed
    /\ post.headlineSize # DefaultPost.headlineSize
    /\ store = <<post>>

\* C23: a mutation of the document made by the user before the initial load
\* completes is not discarded: every field the user has moved away from its
\* default is still as the user left it after the load has completed.
EditsSurviveLoad ==
    [][LoadGets
          => \A f \in DOMAIN post :
                post[f] # DefaultPost[f] => post'[f] = post[f]]_vars

\* ------------------------------------------------------------------ offline cache claims

\* C24: the offline cache is cache-first with network fallback: a fetch whose
\* request has a cached match is answered with the cached response and makes
\* no network request; otherwise the request goes to the network, the
\* network's response is the answer, and it is stored in the cache if and only
\* if the request URL holds one of the patterns of the third-party script and
\* font hosts ('esm.sh', 'googlefonts').
CacheFirstNetworkFallback ==
    [][\A f \in fetches :
          /\ (MatchResolves(f) /\ f.url \in DOMAIN cache)
                => /\ answered' =
                        <<[url |-> f.url, body |-> cache[f.url], from |-> "cache"]>>
                   /\ fetches' = fetches \ {f}
                   /\ cache' = cache
          /\ (MatchResolves(f) /\ f.url \notin DOMAIN cache)
                => /\ [url |-> f.url, pc |-> "network"] \in fetches'
                   /\ answered' = answered
                   /\ cache' = cache
          /\ \A body \in NetworkBodies :
                NetworkResponds(f, body)
                    => LET known == \E i \in DOMAIN f.url :
                                        f.url[i] \in {"esm.sh", "googlefonts"}
                       IN /\ answered' =
                               <<[url |-> f.url, body |-> body, from |-> "network"]>>
                          /\ f.url \in DOMAIN cache' <=> known
                          /\ known => cache'[f.url] = body
                          /\ \A u \in DOMAIN cache \ {f.url} :
                                u \in DOMAIN cache' /\ cache'[u] = cache[u]]_vars

\* C24 witness: a module from esm.sh has been answered from the cache with the
\* body an earlier fetch got from the network; the precached page is in the
\* cache and the font file, whose URL holds neither pattern, is not.
ModuleServedFromCache ==
    /\ answered = <<[url |-> <<"https://", "esm.sh", "/react">>,
                     body |-> "fresh", from |-> "cache"]>>
    /\ <<"https://", "fonts.gstatic.com", "/inter.woff2">> \notin DOMAIN cache
    /\ <<"/index.html">> \in DOMAIN cache

====
